---- MODULE Spec2Model ----
(***************************************************************************)
(* termax: the command-history memory (termax/prompt/memory.py) and the    *)
(* recording code that feeds it (save_command in termax/cli/utils.py and   *)
(* the generate command in termax/cli/cli.py).                             *)
(*                                                                         *)
(* The persistent store is the ChromaDB collection DB_COMMAND_HISTORY: it  *)
(* either exists or not (exists) and, when it exists, maps record ids to   *)
(* (query, response) pairs (records).  get_collection and                  *)
(* delete_collection raise on a collection that does not exist;            *)
(* get_or_create_collection never does.                                    *)
(***************************************************************************)
EXTENDS Integers, Sequences, FiniteSets, TLC

\* ------------------------------------------------------------- bounds
MaxStorage == 3     \* configured storage_size values are 0..MaxStorage
MaxCycles == 5      \* save_command / generate calls started in one behaviour
MaxCalls == 3       \* direct Memory calls that write, in one behaviour
MaxGenCalls == 2    \* generate commands run in one behaviour
MaxRounds == 2      \* pairs of concurrent save_command calls in one behaviour
\* --------------------------------------------------- program constants
DefaultStorageSize == 2000
LegacyLimit == 100
QueryDefaultN == 5
PeekDefaultN == 20

\* ------------------------------------------------------------- inputs
Texts == {"q1", "q2"}
Commands == {"", "c1", "c2"}
Procs == {1, 2}
SeqProcs == {1}
NotSet == 0 - 1                       \* 'storage_size' absent from the config
\* config_dict['general']['auto_execute']: a bool, or the text of the config file
AutoExecuteValues == {"bool:True", "bool:False", "str:True", "str:False", "str:"}
\* what subprocess.run(command, shell=True, text=True) can do
ExecOutcomes == {"ok", "KeyboardInterrupt", "OSError"}
SuppliedIds == {<<"user", 1>>}        \* ids a caller passes as idx
NoIdx == <<"none", 0>>                \* idx = None (or an empty list)

VARIABLES
    exists,        \* the collection DB_COMMAND_HISTORY exists
    ef,            \* the embedding function of the collection ("none": no collection)
    openai,        \* the configuration has an openai section
    records,       \* id -> [query, response] of the collection
    storage_cfg,   \* config_dict['general']['storage_size'] (NotSet: absent)
    auto_execute,  \* config_dict['general']['auto_execute']
    nextUuid,      \* the next uuid4 (every generated id is fresh)
    pc,            \* per process: position in save_command / generate
    text,          \* per process: the user prompt
    cmd,           \* per process: the command
    n,             \* per process: the value memory.count() returned
    err,           \* per process: the exception that left the call
    newid,         \* per process: the id add_query returned in this cycle
    trace,         \* per process: store calls made in this cycle, in order
    outcome,       \* per process: how subprocess.run ended
    ret,           \* the result of the last direct Memory call
    snap,          \* history: the store when the running cycle(s) started
    hist,          \* history: the pairs remembered so far, in order, while clean
    clean,         \* history: every recording so far succeeded with a non-empty response
    added,         \* history: records add_query returned since the eviction
    nAdded,        \* history: how many records were added since the eviction
    ops            \* operations started

vars == <<exists, ef, openai, records, storage_cfg, auto_execute, nextUuid, pc, text, cmd,
          n, err, newid, trace, outcome, ret, snap, hist, clean, added,
          nAdded, ops>>

procVars == <<pc, text, cmd, n, err, newid, trace, outcome>>
histVars == <<hist, clean, added, nAdded>>
cfgVars == <<storage_cfg, auto_execute, openai>>

\* ---------------------------------------------------- the vector store
EmptyRecords == <<>>
NoId == <<"none", 0>>
NoSnap == [exists |-> TRUE, records |-> EmptyRecords]
NoRet == [op |-> "none", err |-> "none", count |-> 0, recs |-> {}]

Size(recs) == Cardinality(DOMAIN recs)

\* uuid.uuid4(): an id no earlier call returned
Uuid(k) == <<"uuid", k>>

\* add_query's choice of ids (memory.py 64-67)
IdsFor(idx, k) == IF idx # NoIdx THEN idx ELSE Uuid(k)

\* the metadata/document add_query builds from one query (memory.py 69-71)
RecordOf(q, r) == [query |-> q, response |-> r]

\* Collection.add of one record: an id already present is left as it is
Inserted(recs, id, q, r) == recs @@ (id :> RecordOf(q, r))

\* client.delete_collection: every record of the collection goes
Evicted(recs) == EmptyRecords

\* Memory.__init__ (memory.py 33-42): get_or_create_collection with the
\* OpenAI embedding function when the openai section is set, with the default
\* one otherwise; a collection that exists keeps the one it has
ConstructedEf(ex, e, cfg) == IF ex THEN e ELSE IF cfg THEN "openai" ELSE "default"

\* get_or_create_collection(collection) without an embedding_function
\* (memory.py 73, 91, 102): a collection it creates gets the default one
OpenedEf(ex, e) == IF ex THEN e ELSE "default"

\* storage_size of save_command (utils.py 135-138)
StorageSize(cfg) == IF cfg = NotSet THEN DefaultStorageSize ELSE cfg

\* Memory.count (memory.py 134): get_collection(name).count()
CountResult(ex, recs) ==
    IF ex THEN [op |-> "count", err |-> "none", count |-> Size(recs), recs |-> {}]
    ELSE [op |-> "count", err |-> "NotFoundError", count |-> 0, recs |-> {}]

\* Memory.get (memory.py 113-117)
GetResult(ex, recs, id) ==
    IF ~ex THEN [op |-> "get", err |-> "NotFoundError", count |-> 0, recs |-> {}]
    ELSE [op |-> "get", err |-> "none", count |-> 0,
          recs |-> {[id |-> i, query |-> recs[i].query, response |-> recs[i].response] :
                      i \in IF id = NoId THEN DOMAIN recs ELSE DOMAIN recs \cap {id}}]

\* --------------------------------------------------------- save_command
\* ScFlow with the capacity check written as count >= storage_size
ScFlowAtLimit(at, cnt, limit, command) ==
    CASE at = "start" -> "sc_count"
      [] at = "sc_count" -> IF cnt >= limit THEN "sc_delete"
                            ELSE IF command # "" THEN "sc_add" ELSE "sc_done"
      [] at = "sc_delete" -> IF command # "" THEN "sc_add" ELSE "sc_done"
      [] at = "sc_add" -> "sc_done"

\* ScFlow with add_query moved in front of the capacity check
ScFlowWriteFirst(at, cnt, limit, command) ==
    CASE at = "start" -> IF command # "" THEN "sc_add" ELSE "sc_count"
      [] at = "sc_add" -> "sc_count"
      [] at = "sc_count" -> IF cnt > limit THEN "sc_delete" ELSE "sc_done"
      [] at = "sc_delete" -> "sc_done"

\* the control flow of save_command's body (utils.py 140-144)
ScFlow(at, cnt, limit, command) ==
    CASE at = "start" -> "sc_count"
      [] at = "sc_count" -> IF cnt > limit THEN "sc_delete"
                            ELSE IF command # "" THEN "sc_add" ELSE "sc_done"
      [] at = "sc_delete" -> IF command # "" THEN "sc_add" ELSE "sc_done"
      [] at = "sc_add" -> "sc_done"

AllIdle == \A p \in Procs : pc[p] = "idle"

\* a caller invokes save_command(command, text, config_dict, memory)
ScStart(p, t, c) ==
    /\ AllIdle
    /\ ops < MaxCycles
    /\ ops' = ops + 1
    /\ pc' = [pc EXCEPT ![p] = ScFlow("start", 0, StorageSize(storage_cfg), c)]
    /\ text' = [text EXCEPT ![p] = t]
    /\ cmd' = [cmd EXCEPT ![p] = c]
    /\ n' = [n EXCEPT ![p] = 0]
    /\ err' = [err EXCEPT ![p] = "none"]
    /\ newid' = [newid EXCEPT ![p] = NoId]
    /\ trace' = [trace EXCEPT ![p] = <<>>]
    /\ snap' = [exists |-> exists, records |-> records]
    /\ ret' = NoRet
    /\ UNCHANGED <<exists, ef, records, cfgVars, nextUuid, outcome, histVars>>

\* memory.count() > storage_size (utils.py 140)
ScCount(p) ==
    /\ pc[p] = "sc_count"
    /\ trace' = [trace EXCEPT ![p] = Append(@, "count")]
    /\ IF exists
       THEN /\ n' = [n EXCEPT ![p] = Size(records)]
            /\ pc' = [pc EXCEPT ![p] =
                        ScFlow("sc_count", Size(records), StorageSize(storage_cfg), cmd[p])]
            /\ UNCHANGED <<err, clean, hist>>
       ELSE /\ err' = [err EXCEPT ![p] = "NotFoundError"]
            /\ pc' = [pc EXCEPT ![p] = "sc_failed"]
            /\ clean' = FALSE
            /\ hist' = <<>>
            /\ UNCHANGED n
    /\ UNCHANGED <<exists, ef, records, cfgVars, nextUuid, text, cmd, newid, outcome,
                   ret, snap, added, nAdded, ops>>

\* memory.delete() (utils.py 141)
ScDelete(p) ==
    /\ pc[p] = "sc_delete"
    /\ trace' = [trace EXCEPT ![p] = Append(@, "delete")]
    /\ IF exists
       THEN /\ exists' = FALSE
            /\ ef' = "none"
            /\ records' = Evicted(records)
            /\ added' = {}
            /\ nAdded' = 0
            /\ pc' = [pc EXCEPT ![p] =
                        ScFlow("sc_delete", n[p], StorageSize(storage_cfg), cmd[p])]
            /\ UNCHANGED <<err, clean, hist>>
       ELSE /\ err' = [err EXCEPT ![p] = "NotFoundError"]
            /\ pc' = [pc EXCEPT ![p] = "sc_failed"]
            /\ clean' = FALSE
            /\ hist' = <<>>
            /\ UNCHANGED <<exists, ef, records, added, nAdded>>
    /\ UNCHANGED <<cfgVars, nextUuid, text, cmd, n, newid, outcome, ret, snap, ops>>

\* memory.add_query(queries=[{"query": text, "response": command}]) (utils.py 144)
ScAdd(p) ==
    /\ pc[p] = "sc_add"
    /\ trace' = [trace EXCEPT ![p] = Append(@, "add")]
    /\ exists' = TRUE
    /\ ef' = OpenedEf(exists, ef)
    /\ \/ /\ records' = Inserted(records, IdsFor(NoIdx, nextUuid), text[p], cmd[p])
          /\ nextUuid' = nextUuid + 1
          /\ newid' = [newid EXCEPT ![p] = IdsFor(NoIdx, nextUuid)]
          /\ added' = added \cup {[id |-> IdsFor(NoIdx, nextUuid),
                                   query |-> text[p], response |-> cmd[p]]}
          /\ nAdded' = nAdded + 1
          /\ pc' = [pc EXCEPT ![p] =
                      ScFlow("sc_add", n[p], StorageSize(storage_cfg), cmd[p])]
          /\ hist' = IF clean THEN Append(hist, <<text[p], cmd[p]>>) ELSE <<>>
          /\ UNCHANGED clean
          /\ UNCHANGED err
       \/ /\ err' = [err EXCEPT ![p] = "EmbeddingError"]
          /\ pc' = [pc EXCEPT ![p] = "sc_failed"]
          /\ clean' = FALSE
          /\ hist' = <<>>
          /\ UNCHANGED <<records, nextUuid, newid, added, nAdded>>
    /\ UNCHANGED <<cfgVars, text, cmd, n, outcome, ret, snap, ops>>

\* save_command returns, or its exception reaches the caller; its locals go
ScReturn(p) ==
    /\ pc[p] \in {"sc_done", "sc_failed"}
    /\ pc' = [pc EXCEPT ![p] = "idle"]
    /\ text' = [text EXCEPT ![p] = "q1"]
    /\ cmd' = [cmd EXCEPT ![p] = ""]
    /\ n' = [n EXCEPT ![p] = 0]
    /\ err' = [err EXCEPT ![p] = "none"]
    /\ newid' = [newid EXCEPT ![p] = NoId]
    /\ trace' = [trace EXCEPT ![p] = <<>>]
    /\ snap' = NoSnap
    /\ clean' = (clean /\ pc[p] = "sc_done" /\ cmd[p] # "")
    /\ hist' = IF clean' THEN hist ELSE <<>>
    /\ UNCHANGED <<exists, ef, records, cfgVars, nextUuid, outcome, ret, added, nAdded, ops>>

\* ------------------------------------------------------------- generate
\* Python's truth value of the setting (cli.py 218)
Truthy(v) == v \notin {"bool:False", "str:"}

\* a store that holds more records than the legacy limit
Preloaded == [i \in {<<"old", k>> : k \in 1..(LegacyLimit + 1)} |-> RecordOf("q1", "c1")]

\* where generate ends once its finally block is over: an exception of
\* subprocess.run other than KeyboardInterrupt is raised again
GenEnd(out) == IF out = "OSError" THEN "g_failed" ELSE "g_done"

\* GenFlow with the except clause leaving the command without the finally block
GenFlowInterruptSkips(at, ae, out, cnt, command) ==
    CASE at = "start" -> "g_model"
      [] at = "g_model" -> IF Truthy(ae) THEN "g_exec" ELSE "g_done"
      [] at = "g_exec" -> IF out = "KeyboardInterrupt" THEN "g_done" ELSE "g_count"
      [] at = "g_count" -> IF cnt > LegacyLimit THEN "g_delete"
                           ELSE IF command # "" THEN "g_add" ELSE GenEnd(out)
      [] at = "g_delete" -> IF command # "" THEN "g_add" ELSE GenEnd(out)
      [] at = "g_add" -> GenEnd(out)

\* the control flow of generate from the model call on (cli.py 212-229)
GenFlow(at, ae, out, cnt, command) ==
    CASE at = "start" -> "g_model"
      [] at = "g_model" -> IF Truthy(ae) THEN "g_exec" ELSE "g_done"
      [] at = "g_exec" -> "g_count"
      [] at = "g_count" -> IF cnt > LegacyLimit THEN "g_delete"
                           ELSE IF command # "" THEN "g_add" ELSE GenEnd(out)
      [] at = "g_delete" -> IF command # "" THEN "g_add" ELSE GenEnd(out)
      [] at = "g_add" -> GenEnd(out)

\* the generate command starts: memory = Memory() opens or creates the
\* collection (cli.py 128, memory.py 29-42)
GenStart(p, t) ==
    /\ AllIdle
    /\ ops < MaxGenCalls
    /\ ops' = ops + 1
    /\ exists' = TRUE
    /\ ef' = ConstructedEf(exists, ef, openai)
    /\ pc' = [pc EXCEPT ![p] = GenFlow("start", auto_execute, "none", 0, "")]
    /\ text' = [text EXCEPT ![p] = t]
    /\ cmd' = [cmd EXCEPT ![p] = ""]
    /\ n' = [n EXCEPT ![p] = 0]
    /\ err' = [err EXCEPT ![p] = "none"]
    /\ newid' = [newid EXCEPT ![p] = NoId]
    /\ trace' = [trace EXCEPT ![p] = <<>>]
    /\ outcome' = [outcome EXCEPT ![p] = "none"]
    /\ snap' = [exists |-> TRUE, records |-> records]
    /\ ret' = NoRet
    /\ clean' = FALSE
    /\ hist' = <<>>
    /\ UNCHANGED <<records, cfgVars, nextUuid, added, nAdded>>

\* command = model.to_command(text) (cli.py 212-213): a command, or the
\* model call raises
GenModel(p) ==
    /\ pc[p] = "g_model"
    /\ \/ \E c \in Commands :
            /\ cmd' = [cmd EXCEPT ![p] = c]
            /\ pc' = [pc EXCEPT ![p] = GenFlow("g_model", auto_execute, "none", 0, c)]
            /\ UNCHANGED err
       \/ /\ err' = [err EXCEPT ![p] = "GenerationError"]
          /\ pc' = [pc EXCEPT ![p] = "g_failed"]
          /\ UNCHANGED cmd
    /\ UNCHANGED <<exists, ef, records, cfgVars, nextUuid, text, n, newid, trace,
                   outcome, ret, snap, histVars, ops>>

\* subprocess.run(command, shell=True, text=True) in the try (cli.py 219-222)
GenExec(p) ==
    /\ pc[p] = "g_exec"
    /\ \E out \in ExecOutcomes :
          /\ outcome' = [outcome EXCEPT ![p] = out]
          /\ pc' = [pc EXCEPT ![p] = GenFlow("g_exec", auto_execute, out, 0, cmd[p])]
    /\ UNCHANGED <<exists, ef, records, cfgVars, nextUuid, text, cmd, n, err, newid,
                   trace, ret, snap, histVars, ops>>

\* memory.count() > 100 in the finally block (cli.py 225)
GenCount(p) ==
    /\ pc[p] = "g_count"
    /\ trace' = [trace EXCEPT ![p] = Append(@, "count")]
    /\ IF exists
       THEN /\ n' = [n EXCEPT ![p] = Size(records)]
            /\ pc' = [pc EXCEPT ![p] =
                        GenFlow("g_count", auto_execute, outcome[p], Size(records), cmd[p])]
            /\ UNCHANGED err
       ELSE /\ err' = [err EXCEPT ![p] = "NotFoundError"]
            /\ pc' = [pc EXCEPT ![p] = "g_failed"]
            /\ UNCHANGED n
    /\ UNCHANGED <<exists, ef, records, cfgVars, nextUuid, text, cmd, newid, outcome,
                   ret, snap, histVars, ops>>

\* memory.delete() in the finally block (cli.py 226)
GenDelete(p) ==
    /\ pc[p] = "g_delete"
    /\ trace' = [trace EXCEPT ![p] = Append(@, "delete")]
    /\ IF exists
       THEN /\ exists' = FALSE
            /\ ef' = "none"
            /\ records' = Evicted(records)
            /\ added' = {}
            /\ nAdded' = 0
            /\ pc' = [pc EXCEPT ![p] =
                        GenFlow("g_delete", auto_execute, outcome[p], n[p], cmd[p])]
            /\ UNCHANGED err
       ELSE /\ err' = [err EXCEPT ![p] = "NotFoundError"]
            /\ pc' = [pc EXCEPT ![p] = "g_failed"]
            /\ UNCHANGED <<exists, ef, records, added, nAdded>>
    /\ UNCHANGED <<cfgVars, nextUuid, text, cmd, n, newid, outcome, ret, snap,
                   hist, clean, ops>>

\* memory.add_query(...) in the finally block (cli.py 228-229)
GenAdd(p) ==
    /\ pc[p] = "g_add"
    /\ trace' = [trace EXCEPT ![p] = Append(@, "add")]
    /\ exists' = TRUE
    /\ ef' = OpenedEf(exists, ef)
    /\ \/ /\ records' = Inserted(records, IdsFor(NoIdx, nextUuid), text[p], cmd[p])
          /\ nextUuid' = nextUuid + 1
          /\ newid' = [newid EXCEPT ![p] = IdsFor(NoIdx, nextUuid)]
          /\ added' = added \cup {[id |-> IdsFor(NoIdx, nextUuid),
                                   query |-> text[p], response |-> cmd[p]]}
          /\ nAdded' = nAdded + 1
          /\ pc' = [pc EXCEPT ![p] =
                      GenFlow("g_add", auto_execute, outcome[p], n[p], cmd[p])]
          /\ UNCHANGED err
       \/ /\ err' = [err EXCEPT ![p] = "EmbeddingError"]
          /\ pc' = [pc EXCEPT ![p] = "g_failed"]
          /\ UNCHANGED <<records, nextUuid, newid, added, nAdded>>
    /\ UNCHANGED <<cfgVars, text, cmd, n, outcome, ret, snap, hist, clean, ops>>

\* generate returns, or its exception ends the command; the process is over
GenReturn(p) ==
    /\ pc[p] \in {"g_done", "g_failed"}
    /\ pc' = [pc EXCEPT ![p] = "idle"]
    /\ text' = [text EXCEPT ![p] = "q1"]
    /\ cmd' = [cmd EXCEPT ![p] = ""]
    /\ n' = [n EXCEPT ![p] = 0]
    /\ err' = [err EXCEPT ![p] = "none"]
    /\ newid' = [newid EXCEPT ![p] = NoId]
    /\ trace' = [trace EXCEPT ![p] = <<>>]
    /\ outcome' = [outcome EXCEPT ![p] = "none"]
    /\ snap' = NoSnap
    /\ UNCHANGED <<exists, ef, records, cfgVars, nextUuid, ret, histVars, ops>>

\* ------------------------------------- two processes, one persistent store
\* the user prompt of process p (the two requests differ)
ConcText(p) == IF p = 1 THEN "q1" ELSE "q2"

\* two processes, each with its own Memory() on the same directory (the
\* constructors have opened or created the collection, memory.py 29-42),
\* call save_command; their store calls interleave from here on
ConcBegin(c1, c2) ==
    /\ AllIdle
    /\ ops < MaxRounds
    /\ ops' = ops + 1
    /\ exists' = TRUE
    /\ ef' = ConstructedEf(exists, ef, openai)
    /\ pc' = [p \in Procs |->
                ScFlow("start", 0, StorageSize(storage_cfg), IF p = 1 THEN c1 ELSE c2)]
    /\ text' = [p \in Procs |-> ConcText(p)]
    /\ cmd' = [p \in Procs |-> IF p = 1 THEN c1 ELSE c2]
    /\ n' = [p \in Procs |-> 0]
    /\ err' = [p \in Procs |-> "none"]
    /\ newid' = [p \in Procs |-> NoId]
    /\ trace' = [p \in Procs |-> <<>>]
    /\ snap' = [exists |-> TRUE, records |-> records]
    /\ ret' = NoRet
    /\ clean' = FALSE
    /\ hist' = <<>>
    /\ UNCHANGED <<records, cfgVars, nextUuid, outcome, added, nAdded>>

\* both calls are over (returned or raised); the processes exit
ConcEnd ==
    /\ \A p \in Procs : pc[p] \in {"sc_done", "sc_failed"}
    /\ pc' = [p \in Procs |-> "idle"]
    /\ text' = [p \in Procs |-> "q1"]
    /\ cmd' = [p \in Procs |-> ""]
    /\ n' = [p \in Procs |-> 0]
    /\ err' = [p \in Procs |-> "none"]
    /\ newid' = [p \in Procs |-> NoId]
    /\ trace' = [p \in Procs |-> <<>>]
    /\ snap' = NoSnap
    /\ UNCHANGED <<exists, ef, records, cfgVars, nextUuid, outcome, ret, histVars, ops>>

\* save_command as one step on a store summarised as its number of records
\* and its set of (query, response) pairs (utils.py 140-144)
SaveCommandOn(st, limit, t, c) ==
    LET kept == IF st.size > limit THEN [size |-> 0, pairs |-> {}] ELSE st
    IN IF c # "" THEN [size |-> kept.size + 1, pairs |-> kept.pairs \cup {RecordOf(t, c)}]
       ELSE kept

Summary(recs) == [size |-> Size(recs), pairs |-> {recs[i] : i \in DOMAIN recs}]

\* ------------------------------------------------ direct Memory calls
\* Memory.add_query(queries=[{query: q, response: r}], idx=idx) (memory.py 44-79)
AddQuery(q, r, idx) ==
    /\ AllIdle
    /\ ops < MaxCalls
    /\ ops' = ops + 1
    /\ exists' = TRUE
    /\ ef' = OpenedEf(exists, ef)
    /\ nextUuid' = IF idx = NoIdx THEN nextUuid + 1 ELSE nextUuid
    /\ \/ /\ records' = Inserted(records, IdsFor(idx, nextUuid), q, r)
          /\ ret' = [op |-> "add_query", err |-> "none", count |-> 0,
                     recs |-> {[id |-> IdsFor(idx, nextUuid), query |-> q, response |-> r]}]
          /\ added' = added \cup {[id |-> IdsFor(idx, nextUuid), query |-> q, response |-> r]}
          /\ nAdded' = nAdded + 1
          /\ clean' = (clean /\ r # "")
          /\ hist' = IF clean' THEN Append(hist, <<q, r>>) ELSE <<>>
       \/ /\ IdsFor(idx, nextUuid) \in DOMAIN records
          /\ ret' = [op |-> "add_query", err |-> "DuplicateIDError", count |-> 0, recs |-> {}]
          /\ clean' = FALSE
          /\ hist' = <<>>
          /\ UNCHANGED <<records, added, nAdded>>
       \/ /\ ret' = [op |-> "add_query", err |-> "EmbeddingError", count |-> 0, recs |-> {}]
          /\ clean' = FALSE
          /\ hist' = <<>>
          /\ UNCHANGED <<records, added, nAdded>>
    /\ UNCHANGED <<cfgVars, procVars, snap>>

\* Memory.delete() (memory.py 119-125)
Delete ==
    /\ AllIdle
    /\ ops < MaxCalls
    /\ ops' = ops + 1
    /\ IF exists
       THEN /\ exists' = FALSE
            /\ ef' = "none"
            /\ records' = Evicted(records)
            /\ added' = {}
            /\ nAdded' = 0
            /\ ret' = [op |-> "delete", err |-> "none", count |-> 0, recs |-> {}]
       ELSE /\ ret' = [op |-> "delete", err |-> "NotFoundError", count |-> 0, recs |-> {}]
            /\ UNCHANGED <<exists, ef, records, added, nAdded>>
    /\ UNCHANGED <<cfgVars, nextUuid, procVars, snap, hist, clean>>

\* Memory.count() (memory.py 127-134)
Count ==
    /\ AllIdle
    /\ ret' = CountResult(exists, records)
    /\ UNCHANGED <<exists, ef, records, cfgVars, nextUuid, procVars, snap, histVars, ops>>

\* Memory.get(record_id) (memory.py 104-117)
Get(id) ==
    /\ AllIdle
    /\ ret' = GetResult(exists, records, id)
    /\ UNCHANGED <<exists, ef, records, cfgVars, nextUuid, procVars, snap, histVars, ops>>

\* get_collection in place of get_or_create_collection: nothing is created
GetOnly(ex) == ex

\* client.get_or_create_collection(collection) (memory.py 91, 102): the
\* collection exists afterwards, created empty when it did not
GetOrCreate(ex) == TRUE

\* the result sets Collection.query(n_results=k) / Collection.peek(limit=k)
\* can return: k records of the collection, or all of them when it holds
\* fewer (which ones the embedding ranks first is not modelled)
ResultSets(recs, k) ==
    LET all == {[id |-> i, query |-> recs[i].query, response |-> recs[i].response] :
                  i \in DOMAIN recs}
    IN {S \in SUBSET all : Cardinality(S) = IF Size(recs) < k THEN Size(recs) ELSE k}

\* Memory.query(query_texts=[q]) (memory.py 81-91)
Query(q) ==
    /\ AllIdle
    /\ exists' = GetOrCreate(exists)
    /\ ef' = OpenedEf(exists, ef)
    /\ \E S \in ResultSets(records, QueryDefaultN) :
          ret' = [op |-> "query", err |-> "none", count |-> 0, recs |-> S]
    /\ UNCHANGED <<records, cfgVars, nextUuid, procVars, snap, histVars, ops>>

\* Memory.peek() (memory.py 93-102)
Peek ==
    /\ AllIdle
    /\ exists' = GetOrCreate(exists)
    /\ ef' = OpenedEf(exists, ef)
    /\ \E S \in ResultSets(records, PeekDefaultN) :
          ret' = [op |-> "peek", err |-> "none", count |-> 0, recs |-> S]
    /\ UNCHANGED <<records, cfgVars, nextUuid, procVars, snap, histVars, ops>>

\* ------------------------------------------------------------ the session
Init ==
    /\ exists = TRUE
    /\ openai \in BOOLEAN
    /\ ef = ConstructedEf(FALSE, "none", openai)
    /\ records = EmptyRecords
    /\ storage_cfg \in {NotSet} \cup (0..MaxStorage)
    /\ auto_execute = "bool:True"
    /\ nextUuid = 1
    /\ pc = [p \in Procs |-> "idle"]
    /\ text = [p \in Procs |-> "q1"]
    /\ cmd = [p \in Procs |-> ""]
    /\ n = [p \in Procs |-> 0]
    /\ err = [p \in Procs |-> "none"]
    /\ newid = [p \in Procs |-> NoId]
    /\ trace = [p \in Procs |-> <<>>]
    /\ outcome = [p \in Procs |-> "none"]
    /\ ret = NoRet
    /\ snap = NoSnap
    /\ hist = <<>>
    /\ clean = TRUE
    /\ added = {}
    /\ nAdded = 0
    /\ ops = 0

Next ==
    \/ \E p \in SeqProcs, t \in Texts, c \in Commands : ScStart(p, t, c)
    \/ \E p \in SeqProcs : ScCount(p)
    \/ \E p \in SeqProcs : ScDelete(p)
    \/ \E p \in SeqProcs : ScAdd(p)
    \/ \E p \in SeqProcs : ScReturn(p)
    \/ Count

Spec == Init /\ [][Next]_vars

\* a session of direct calls on one Memory
NextApi ==
    \/ \E q \in Texts, r \in Commands, idx \in {NoIdx} \cup SuppliedIds : AddQuery(q, r, idx)
    \/ Delete
    \/ Count
    \/ \E id \in {NoId} \cup SuppliedIds \cup {a.id : a \in added} : Get(id)
    \/ \E q \in Texts : Query(q)
    \/ Peek

\* the direct calls read no storage_size: the session starts from Init with
\* the setting absent
InitApi == Init /\ storage_cfg = NotSet

SpecApi == InitApi /\ [][NextApi]_vars

\* runs of the generate command, one process after the other, on a store
\* that is new, empty, or over the legacy limit
InitGen ==
    /\ \/ exists = FALSE /\ records = EmptyRecords
       \/ exists = TRUE /\ records \in {EmptyRecords, Preloaded}
    /\ openai \in BOOLEAN
    /\ ef = IF exists THEN ConstructedEf(FALSE, "none", openai) ELSE "none"
    /\ storage_cfg = NotSet
    /\ auto_execute \in AutoExecuteValues
    /\ nextUuid = 1
    /\ pc = [p \in Procs |-> "idle"]
    /\ text = [p \in Procs |-> "q1"]
    /\ cmd = [p \in Procs |-> ""]
    /\ n = [p \in Procs |-> 0]
    /\ err = [p \in Procs |-> "none"]
    /\ newid = [p \in Procs |-> NoId]
    /\ trace = [p \in Procs |-> <<>>]
    /\ outcome = [p \in Procs |-> "none"]
    /\ ret = NoRet
    /\ snap = NoSnap
    /\ hist = <<>>
    /\ clean = FALSE
    /\ added = {}
    /\ nAdded = 0
    /\ ops = 0

NextGen ==
    \/ \E p \in SeqProcs, t \in Texts : GenStart(p, t)
    \/ \E p \in SeqProcs : GenModel(p)
    \/ \E p \in SeqProcs : GenExec(p)
    \/ \E p \in SeqProcs : GenCount(p)
    \/ \E p \in SeqProcs : GenDelete(p)
    \/ \E p \in SeqProcs : GenAdd(p)
    \/ \E p \in SeqProcs : GenReturn(p)

SpecGen == InitGen /\ [][NextGen]_vars

NextConc ==
    \/ \E c1, c2 \in Commands : ConcBegin(c1, c2)
    \/ \E p \in Procs : ScCount(p)
    \/ \E p \in Procs : ScDelete(p)
    \/ \E p \in Procs : ScAdd(p)
    \/ ConcEnd

SpecConc == Init /\ [][NextConc]_vars

\* ====================================================== the claims
\* the capacity check of the running cycle of p is over and its write is not
\* yet made
AfterCheck(p) ==
    /\ pc[p] \in {"sc_add", "sc_done"}
    /\ trace[p] \in {<<"count">>, <<"count", "delete">>}

Distinct4(h) ==
    /\ Len(h) >= 4
    /\ \A i, j \in 1..4 : i # j => h[i] # h[j]

\* C1 (as claimed): when save_command returns, the collection holds at most
\* storage_size records.
C1_CountWithinStorageSize ==
    \A p \in SeqProcs :
        pc[p] = "sc_done" => Size(records) <= StorageSize(storage_cfg)

\* C2: with storage_size = 3, after 4 successful recording cycles with
\* distinct non-empty pairs from the empty store, the capacity check of the
\* following cycle deletes the whole collection (no record is left), and the
\* add_query of that cycle re-creates it with exactly one record.
C2_WholePartitionEviction ==
    \A p \in SeqProcs :
        (storage_cfg = 3 /\ clean /\ Distinct4(hist)) =>
            /\ (Len(hist) = 4 /\ AfterCheck(p)) =>
                   (~exists /\ Size(records) = 0 /\ trace[p] = <<"count", "delete">>)
            /\ (Len(hist) = 5 /\ pc[p] = "sc_done" /\ newid[p] # NoId) =>
                   (CountResult(exists, records).err = "none"
                    /\ CountResult(exists, records).count = 1
                    /\ records[newid[p]] = RecordOf(text[p], cmd[p]))

C2_Witness ==
    \E p \in SeqProcs :
        /\ storage_cfg = 3 /\ clean /\ Distinct4(hist) /\ Len(hist) = 5
        /\ pc[p] = "sc_done" /\ trace[p] = <<"count", "delete", "add">>
        /\ Size(records) = 1

\* C5 (as claimed): Memory.count() returns 0, and raises nothing, when the
\* collection does not exist.
C5_CountZeroWhenAbsent ==
    (ret.op = "count" /\ ~exists) => (ret.err = "none" /\ ret.count = 0)

\* C6 (as claimed): when a recording cycle ends with an error, the records of
\* the collection are those it held when the cycle started.
C6_NoPartialWriteOnFailure ==
    \A p \in SeqProcs :
        pc[p] = "sc_failed" => records = snap.records

C8_WriteLast ==
    \A p \in SeqProcs :
        (pc[p] = "sc_done" /\ cmd[p] # "") =>
            /\ trace[p] \in {<<"count", "add">>, <<"count", "delete", "add">>}
            /\ newid[p] \in DOMAIN records
            /\ records[newid[p]] = RecordOf(text[p], cmd[p])

C4_NoEmptyResponseStored ==
    /\ \A id \in DOMAIN records : records[id].response # ""
    /\ \A a \in added : a.response # ""

\* C9 (as claimed): after add_query calls with non-empty responses (ids
\* generated, or supplied and not repeated) and evictions, Memory.count()
\* returns the number of records added since the last eviction, and
\* Memory.get(id) returns each of them as it was added.
C9_CountAndGetMatchAdds ==
    (clean /\ Len(hist) >= 1 /\ Cardinality({a.id : a \in added}) = nAdded) =>
        /\ CountResult(exists, records) =
               [op |-> "count", err |-> "none", count |-> nAdded, recs |-> {}]
        /\ \A a \in added :
               GetResult(exists, records, a.id) =
                   [op |-> "get", err |-> "none", count |-> 0, recs |-> {a}]

\* the ids in the store that were not there when the running cycle started
NewIds == DOMAIN records \ DOMAIN snap.records

\* C3 (as claimed): when generate returns, exactly one record, (request,
\* command), has been added if the command is not empty, and none otherwise,
\* whatever the auto_execute setting.
C3_RecordedOncePerCommand ==
    \A p \in SeqProcs :
        pc[p] = "g_done" =>
            IF cmd[p] # ""
            THEN /\ Cardinality(NewIds) = 1
                 /\ \A id \in NewIds : records[id] = RecordOf(text[p], cmd[p])
            ELSE NewIds = {}

\* C7: once generate has handed the command to subprocess.run, however that
\* ends (normally, KeyboardInterrupt, another exception), the recording block
\* runs before generate is left: the capacity check first, then add_query
\* when the command is not empty; the only record the block can add is the
\* whole (request, command) pair, and it is there unless the store raised.
C7_RecordingNotSkipped ==
    \A p \in SeqProcs :
        (pc[p] \in {"g_done", "g_failed"} /\ outcome[p] # "none") =>
            /\ trace[p] # <<>> /\ trace[p][1] = "count"
            /\ (cmd[p] # "" /\ err[p] = "none") =>
                   /\ trace[p] \in {<<"count", "add">>, <<"count", "delete", "add">>}
                   /\ newid[p] \in DOMAIN records
                   /\ records[newid[p]] = RecordOf(text[p], cmd[p])
            /\ cmd[p] = "" => trace[p] \in {<<"count">>, <<"count", "delete">>}
            /\ NewIds \subseteq {newid[p]}
            /\ \A id \in NewIds : records[id] = RecordOf(text[p], cmd[p])

C7_Witness ==
    \E p \in SeqProcs :
        /\ pc[p] = "g_done" /\ outcome[p] = "KeyboardInterrupt"
        /\ trace[p] = <<"count", "delete", "add">>
        /\ newid[p] \in DOMAIN records

\* C10 (as claimed): when two concurrent save_command calls with non-empty
\* commands are both over, neither has raised and the store is what the two
\* calls, run one after the other in some order, leave.
C10_Serializable ==
    (\A p \in Procs : /\ pc[p] \in {"sc_done", "sc_failed"}
                      /\ cmd[p] # "" /\ err[p] # "EmbeddingError") =>
        /\ \A p \in Procs : err[p] = "none"
        /\ \E first \in Procs : \E second \in Procs \ {first} :
              Summary(records) =
                  SaveCommandOn(
                      SaveCommandOn(Summary(snap.records), StorageSize(storage_cfg),
                                    text[first], cmd[first]),
                      StorageSize(storage_cfg), text[second], cmd[second])

\* a step of Memory.query or Memory.peek
ReadStep == ret'.op \in {"query", "peek"} /\ ret' # ret

\* C11 (as claimed): Memory.query and Memory.peek change neither which
\* collections exist nor any record, so Memory.count() and Memory.get()
\* answer after them as they did before.
C11_ReadsChangeNothing ==
    [][ReadStep =>
          /\ exists' = exists
          /\ records' = records
          /\ CountResult(exists', records') = CountResult(exists, records)
          /\ \A id \in {NoId} \cup DOMAIN records :
                GetResult(exists', records', id) = GetResult(exists, records, id)]_vars

\* C11 (amended): Memory.query and Memory.peek change no record; on an
\* existing collection they change nothing, so count() and get() answer as
\* before; on a collection that does not exist (after Memory.delete()) they
\* create it empty, so count() then returns 0 and get() no record where they
\* raised before.
C11_ReadsOnlyCreate ==
    [][ReadStep =>
          /\ records' = records
          /\ exists'
          /\ exists =>
                /\ CountResult(exists', records') = CountResult(exists, records)
                /\ \A id \in {NoId} \cup DOMAIN records :
                      GetResult(exists', records', id) = GetResult(exists, records, id)
          /\ ~exists =>
                /\ CountResult(exists, records).err = "NotFoundError"
                /\ CountResult(exists', records') =
                       [op |-> "count", err |-> "none", count |-> 0, recs |-> {}]
                /\ GetResult(exists', records', NoId) =
                       [op |-> "get", err |-> "none", count |-> 0, recs |-> {}]]_vars

C11_Witness ==
    /\ ret.op \in {"query", "peek"}
    /\ exists /\ Size(records) = 0
    /\ clean /\ Len(hist) >= 1

\* C12 (as claimed): with the openai section configured, the collection,
\* whenever it exists (created by the constructor, or created again by
\* add_query, query or peek after an eviction), has the OpenAI embedding
\* function the constructor selected.
C12_EmbeddingFixedByConstructor ==
    (openai /\ exists) => ef = "openai"

====
